---- MODULE Spec2Model ----
(***************************************************************************)
(* vsco-get: the media acquisition pipeline of scraper/scraper.go.         *)
(*                                                                         *)
(* The file holds two generations of the pipeline that the properties      *)
(* below are about:                                                        *)
(*   "offset": fetchMedia (page index, retries), files named by the        *)
(*             server's _id, stripExistingMedia by directory inventory     *)
(*             (scraper.go 538-817);                                       *)
(*   "cursor": fetchImageList (next_cursor), files named by the upload     *)
(*             second, stripExistingMedia by os.Stat (scraper.go 894-1177).*)
(* Both share the download pool of SaveAllMedia: a buffered channel used   *)
(* as a counting semaphore, a WaitGroup and a progress bar.                *)
(*                                                                         *)
(* Strings are sequences of one-character strings, so that prefix tests,   *)
(* path.Ext, strings.TrimSuffix and strconv.Itoa are computed, not assumed.*)
(***************************************************************************)
EXTENDS Naturals, Sequences, FiniteSets, TLC

(* ------------------------------ bounds --------------------------------- *)
\* longest catalog the server holds
MaxItems == 3
\* largest -w value tried (0 .. MaxWorkers)
MaxWorkers == 2
\* largest page size tried (1 .. MaxPageSize)
MaxPageSize == 2
\* most failed page requests (transport error or non-200) in one run
MaxFaults == 3
\* longest list of usernames GetMediaFromUserlist is given
MaxUsers == 2
\* longest catalog the server holds for a user of such a list
MaxBatchItems == 2

(* ------------------------ program constants ---------------------------- *)
\* const retryCount = 3
retryCount == 3
\* strconv.Itoa(media.Upload_date)[:10]
SecondsDigits == 10

(* --------------------------- strings ----------------------------------- *)
Min(a, b) == IF a <= b THEN a ELSE b

\* An argument or local of the Go code is evaluated once: such a value is
\* bound as  CHOOSE res \in {body : v \in {argument}} : TRUE.

\* strings.HasPrefix
HasPrefix(s, p) == Len(s) >= Len(p) /\ SubSeq(s, 1, Len(p)) = p

\* strings.HasSuffix
HasSuffix(s, p) == Len(s) >= Len(p) /\ SubSeq(s, Len(s) - Len(p) + 1, Len(s)) = p

\* strings.TrimSuffix
TrimSuffix(s, p) == IF HasSuffix(s, p) THEN SubSeq(s, 1, Len(s) - Len(p)) ELSE s

\* index of the first c in s, 0 when there is none
IndexOf(s, c) ==
  IF \E i \in 1..Len(s) : s[i] = c
  THEN CHOOSE i \in 1..Len(s) : s[i] = c /\ \A j \in 1..(i-1) : s[j] # c
  ELSE 0

\* index of the last c in s, 0 when there is none
LastIndexOf(s, c) ==
  IF \E i \in 1..Len(s) : s[i] = c
  THEN CHOOSE i \in 1..Len(s) : s[i] = c /\ \A j \in (i+1)..Len(s) : s[j] # c
  ELSE 0

\* path.Ext: the suffix beginning at the final dot in the final
\* slash-separated element of the path; empty if there is no dot
PathExt(path) ==
  (CHOOSE res \in {(IF LastIndexOf(p, ".") > LastIndexOf(p, "/")
                    THEN SubSeq(p, LastIndexOf(p, "."), Len(p))
                    ELSE << >>) : p \in {path}} : TRUE)

Letters == {"a", "b", "c", "d", "h", "j", "g", "m", "p", "s", "t", "v", "x"}
SchemeExtra == {"0", "1", "2", "3", "4", "5", "6", "7", "8", "9", "+", "-", "."}

\* net/url getScheme: the index of the colon that ends the scheme, 0 when
\* the string has no scheme, Len + 1 for "missing protocol scheme"
RECURSIVE SchemeEnd(_, _)
SchemeEnd(u, i) ==
  IF i > Len(u) THEN 0
  ELSE IF u[i] \in Letters THEN SchemeEnd(u, i + 1)
  ELSE IF u[i] \in SchemeExtra THEN (IF i = 1 THEN 0 ELSE SchemeEnd(u, i + 1))
  ELSE IF u[i] = ":" THEN (IF i = 1 THEN Len(u) + 1 ELSE i)
  ELSE 0

\* s up to its first c, the whole of s when it has none
CutAt(str, c) ==
  (CHOOSE res \in {(IF IndexOf(s, c) > 0 THEN SubSeq(s, 1, IndexOf(s, c) - 1) ELSE s) : s \in {str}} : TRUE)

\* url.Parse fails ("missing protocol scheme")
UrlParseFails(url) ==
  (CHOOSE res \in {(SchemeEnd(u, 1) = Len(u) + 1) : u \in {CutAt(url, "#")}} : TRUE)

\* url.Parse: what follows the scheme
DropScheme(url) ==
  (CHOOSE res \in {(IF SchemeEnd(u, 1) > 0
                    THEN SubSeq(u, SchemeEnd(u, 1) + 1, Len(u)) ELSE u) : u \in {url}} : TRUE)

\* url.Parse: what follows the authority ("//host")
DropAuthority(rest) ==
  (CHOOSE res \in {(IF HasPrefix(r, <<"/", "/">>)
                    THEN IF IndexOf(SubSeq(r, 3, Len(r)), "/") > 0
                         THEN SubSeq(r, 2 + IndexOf(SubSeq(r, 3, Len(r)), "/"), Len(r))
                         ELSE << >>
                    ELSE r) : r \in {rest}} : TRUE)

\* url.Parse(u).Path: fragment and query cut, scheme and authority dropped
UrlPath(u) == DropAuthority(CutAt(DropScheme(CutAt(u, "#")), "?"))

\* the path without its trailing slashes
RECURSIVE TrimSlashes(_)
TrimSlashes(p) ==
  IF Len(p) > 0 /\ p[Len(p)] = "/" THEN TrimSlashes(SubSeq(p, 1, Len(p) - 1))
  ELSE p

\* path.Base: the last element of the path; "." for the empty path, "/" for
\* a path of slashes
PathBase(path) ==
  IF path = << >> THEN <<".">>
  ELSE (CHOOSE res \in {(IF p = << >> THEN <<"/">>
                         ELSE SubSeq(p, LastIndexOf(p, "/") + 1, Len(p)))
                          : p \in {TrimSlashes(path)}} : TRUE)

DigitChars == <<"0", "1", "2", "3", "4", "5", "6", "7", "8", "9">>

\* the decimal digits of a natural number
RECURSIVE Digits(_)
Digits(n) ==
  IF n < 10 THEN <<DigitChars[n + 1]>>
  ELSE Digits(n \div 10) \o <<DigitChars[(n % 10) + 1]>>

\* An upload date is an int64 of milliseconds; it is kept as the pair
\* (s, ms) with value s * 1000 + ms, so that 13-digit values fit.
\* strconv.Itoa of that value:
Itoa(d) ==
  IF d.s = 0 THEN Digits(d.ms)
  ELSE Digits(d.s) \o <<DigitChars[(d.ms \div 100) + 1],
                        DigitChars[((d.ms \div 10) % 10) + 1],
                        DigitChars[(d.ms % 10) + 1]>>

\* Upload_date / 1000
UnixSeconds(d) == d.s

(* ----------------------------- media ----------------------------------- *)
Https == <<"h", "t", "t", "p", "s", ":", "/", "/">>
Http == <<"h", "t", "t", "p">>
DotJpg == <<".", "j", "p", "g">>
DotMp4 == <<".", "m", "p", "4">>
ProfileName == <<"p">>

\* type Media struct: the entries the server may hold
MediaA ==
  [ID |-> <<"a">>, Is_video |-> FALSE, Video_url |-> << >>,
   Responsive_url |-> Https \o <<"h", "/", "a">> \o DotJpg,
   Upload_date |-> [s |-> 1700000000, ms |-> 123]]
\* scheme-relative URL, uploaded in the same second as MediaA
MediaB ==
  [ID |-> <<"b">>, Is_video |-> FALSE, Video_url |-> << >>,
   Responsive_url |-> <<"h", "/", "b">> \o DotJpg,
   Upload_date |-> [s |-> 1700000000, ms |-> 999]]
\* a video whose URL path has no extension
MediaC ==
  [ID |-> <<"c">>, Is_video |-> TRUE, Video_url |-> <<"h", "/", "v">>,
   Responsive_url |-> <<"h", "/", "c">> \o DotJpg,
   Upload_date |-> [s |-> 1700000001, ms |-> 0]]
\* an image whose URL has the scheme http
MediaD ==
  [ID |-> <<"d">>, Is_video |-> FALSE, Video_url |-> << >>,
   Responsive_url |-> Http \o <<":", "/", "/", "h", "/", "d">> \o DotJpg,
   Upload_date |-> [s |-> 1700000002, ms |-> 0]]
\* the video flag set and no video URL
MediaE ==
  [ID |-> <<"e">>, Is_video |-> TRUE, Video_url |-> << >>,
   Responsive_url |-> <<"h", "/", "e">> \o DotJpg,
   Upload_date |-> [s |-> 1700000003, ms |-> 0]]
MediaUniverse == {MediaA, MediaB, MediaC, MediaD, MediaE}

\* getMediaUrl (offset generation)
getMediaUrl(media) ==
  IF media.Is_video /\ media.Video_url # << >>
  THEN IF ~HasPrefix(media.Video_url, Http)
       THEN Https \o media.Video_url ELSE media.Video_url
  ELSE IF ~HasPrefix(media.Responsive_url, Http)
       THEN Https \o media.Responsive_url ELSE media.Responsive_url

\* fixUrl (cursor generation)
fixUrl(rawUrl) == IF HasPrefix(rawUrl, Https) THEN rawUrl ELSE Https \o rawUrl

\* getCorrectUrl (cursor generation)
getCorrectUrl(media) ==
  IF media.Is_video THEN media.Video_url ELSE media.Responsive_url

\* the file name SaveMediaToFile of the offset generation writes:
\* media.ID + path.Ext(parsed.Path), ".mp4" / ".jpg" when the path has none
SaveFilenameOffset(media) ==
  IF UrlParseFails(getMediaUrl(media)) THEN [kind |-> "err", name |-> << >>]
  ELSE [kind |-> "ok",
        name |-> media.ID \o
                 (CHOOSE res \in {(IF fileExt = << >>
                          THEN (IF media.Is_video THEN DotMp4 ELSE DotJpg)
                          ELSE fileExt) : fileExt \in {PathExt(UrlPath(getMediaUrl(media)))}} : TRUE)]

\* getMediaFilename of the cursor generation:
\* strconv.Itoa(media.Upload_date)[:10] + path.Ext(parsed.Path);
\* the slice panics when the decimal form has fewer than 10 digits
getMediaFilename(media) ==
  IF UrlParseFails(getCorrectUrl(media)) THEN [kind |-> "err", name |-> << >>]
  ELSE (CHOOSE res \in {(IF Len(uploadDate) < SecondsDigits
                THEN [kind |-> "panic", name |-> << >>]
                ELSE [kind |-> "ok",
                      name |-> SubSeq(uploadDate, 1, SecondsDigits)
                                 \o PathExt(UrlPath(getCorrectUrl(media)))]) : uploadDate \in {Itoa(media.Upload_date)}} : TRUE)

\* getMediaFilename of the first generation: path.Base(parsed.Path)
getMediaFilenameFirst(media) ==
  IF UrlParseFails(getCorrectUrl(media)) THEN [kind |-> "err", name |-> << >>]
  ELSE [kind |-> "ok", name |-> PathBase(UrlPath(getCorrectUrl(media)))]

\* the three generations of the scraper the repository holds
Generations == {"first", "offset", "cursor"}

\* the name a save of `media` writes under the user directory, tabulated
\* once per generation and entry
FilenameTable ==
  [v \in Generations |->
     [m \in MediaUniverse |->
        IF v = "offset" THEN SaveFilenameOffset(m)
        ELSE IF v = "cursor" THEN getMediaFilename(m)
        ELSE getMediaFilenameFirst(m)]]
SaveFilename(v, media) == FilenameTable[v][media]

(* --------------------------- directory --------------------------------- *)
\* A directory entry of the user directory (inProfile: of its profile/
\* subdirectory).
File(n) == [name |-> n, isDir |-> FALSE, inProfile |-> FALSE]
SubDir(n) == [name |-> n, isDir |-> TRUE, inProfile |-> FALSE]
ProfileFile(n) == [name |-> n, isDir |-> FALSE, inProfile |-> TRUE]

\* the states the user directory may be in when a run starts
DirChoices ==
  { {},
    {File(<<"a">> \o DotJpg)},
    {File(<<"b">>), SubDir(<<"c">>)},
    {SubDir(<<"a">>), SubDir(ProfileName), ProfileFile(<<"c">> \o DotJpg)},
    {File(Digits(1700000000) \o DotJpg)} }

\* every name an entry of the user directory can have
KnownNames ==
  {e.name : e \in UNION DirChoices}
    \cup {FilenameTable[v][m].name : v \in Generations, m \in MediaUniverse}

\* (only ".jpg" is trimmed)
BaseNameTableJpgOnly == [n \in KnownNames |-> TrimSuffix(n, DotJpg)]

\* "strings.TrimSuffix(file.Name(), path.Ext(file.Name()))", tabulated
BaseNameTable == [n \in KnownNames |-> TrimSuffix(n, PathExt(n))]

\* (the "!file.IsDir()" test is missing)
ExistingFilesWithDirs(d) == { BaseNameTable[e.name] : e \in d }

\* the existingFiles map of stripExistingMedia (offset generation): the
\* extension-stripped names of the non-directory entries of userPath and of
\* userPath/profile
ExistingFiles(d) == { BaseNameTable[e.name] : e \in {x \in d : ~x.isDir} }

\* os.Stat(path.Join(userPath, name)) succeeds
StatExists(d, n) == \E e \in d : ~e.inProfile /\ e.name = n

\* stripExistingMedia, offset generation (never fails)
stripExistingMediaOffset(mediaList, d) ==
  LET existingFiles == ExistingFiles(d)
      Keep(m) == m.ID \notin existingFiles
  IN  [kind |-> "ok", list |-> SelectSeq(mediaList, Keep)]

\* stripExistingMedia, cursor generation: returns the error of the first
\* entry whose name cannot be derived, panics with getMediaFilename
stripExistingMediaCursor(mediaList, d) ==
  LET bad == {i \in 1..Len(mediaList) :
                SaveFilename("cursor", mediaList[i]).kind # "ok"}
      Keep(m) == ~StatExists(d, SaveFilename("cursor", m).name)
  IN  IF bad # {}
      THEN [kind |-> SaveFilename("cursor",
                       mediaList[CHOOSE i \in bad : \A j \in bad : i <= j]).kind,
            list |-> << >>]
      ELSE [kind |-> "ok", list |-> SelectSeq(mediaList, Keep)]

\* stripExistingMedia, first generation: the same loop over the names
\* getMediaFilename of that generation derives
stripExistingMediaFirst(mediaList, d) ==
  LET bad == {i \in 1..Len(mediaList) :
                SaveFilename("first", mediaList[i]).kind # "ok"}
      Keep(m) == ~StatExists(d, SaveFilename("first", m).name)
  IN  IF bad # {}
      THEN [kind |-> "err", list |-> << >>]
      ELSE [kind |-> "ok", list |-> SelectSeq(mediaList, Keep)]

stripExistingMedia(v, mediaList, d) ==
  IF v = "offset" THEN stripExistingMediaOffset(mediaList, d)
  ELSE IF v = "cursor" THEN stripExistingMediaCursor(mediaList, d)
  ELSE stripExistingMediaFirst(mediaList, d)

\* os.Create(path.Join(folder, name)) fails: the path is a directory
CreateFails(d, n) == \E e \in d : ~e.inProfile /\ e.isDir /\ e.name = n

\* HttpClient.DownloadFile(url, folder/name) with the transport's outcome:
\*   "ok"      the body is copied to the file;
\*   "neterr"  client.Get returns an error;
\*   "status"  the response is not 200;
\*   "copyerr" io.Copy fails after the file was created.
\* Returns the error flag and the directory afterwards.
DownloadFile(d, n, outcome) ==
  IF outcome \in {"neterr", "status"} THEN [err |-> TRUE, dir |-> d]
  ELSE IF CreateFails(d, n) THEN [err |-> TRUE, dir |-> d]
  ELSE [err |-> outcome = "copyerr", dir |-> d \cup {File(n)}]

\* HttpClient.DownloadFile of the second httpclient: the status is not
\* looked at, the body of any response is copied to the file
DownloadFileSecond(d, n, outcome) ==
  IF outcome = "neterr" THEN [err |-> TRUE, dir |-> d]
  ELSE IF CreateFails(d, n) THEN [err |-> TRUE, dir |-> d]
  ELSE [err |-> outcome = "copyerr", dir |-> d \cup {File(n)}]

\* the two httpclient packages the repository holds
HttpClients == {"first", "second"}

DownloadFileOf(h, d, n, outcome) ==
  IF h = "first" THEN DownloadFile(d, n, outcome)
  ELSE DownloadFileSecond(d, n, outcome)

\* the URL SaveMediaToFile hands to client.DownloadFile
TransportUrl(v, media) ==
  IF v = "offset" THEN getMediaUrl(media) ELSE fixUrl(getCorrectUrl(media))

\* SaveMediaToFile: the name is derived, then the file is downloaded
SaveMediaToFile(v, media, d, outcome) ==
  LET f == SaveFilename(v, media)
  IN  IF f.kind # "ok" THEN [err |-> TRUE, dir |-> d]
      ELSE DownloadFile(d, f.name, outcome)

(* ------------------------------ state ---------------------------------- *)
VARIABLES
  variant,      \* which generation of the pipeline runs: "offset" or "cursor"
  numWorkers,   \* scraper.numWorkers (the -w flag)
  PageSize,     \* the page size constant of the build
  server,       \* the catalog the server holds, in order
  dir,          \* the entries of the user directory (and of its profile/)
  pc,           \* where the goroutine running SaveAllMedia is
  page,         \* the fetch loop's page (from 0 in fetchMedia, 1 in fetchImageList)
  nextCursor,   \* fetchImageList: the cursor of the next request (0 is "")
  attempt,      \* fetchMedia: the retry loop's i
  list,         \* allMedia / list: the catalog fetched so far
  requests,     \* page requests the running fetch has issued (client.Get calls)
  faults,       \* page requests of the running fetch that failed
  lastGet,      \* the outcome of the running fetch's latest client.Get
  delays,       \* fetchMedia: time.Sleep(retryDelay) calls for the current page
  filtered,     \* what stripExistingMedia returned
  stripCalls,   \* calls of stripExistingMedia
  idx,          \* the item the pool loop is at (1-based)
  sem,          \* number of values in the channel sem
  wg,           \* the WaitGroup counter
  bar,          \* the progress bar's count
  worker,       \* per item: the position of its goroutine and its save's result
  errLogged,    \* log lines written for failed saves
  ret,          \* what SaveAllMedia returned: "none" yet, "nil" or "err"
  saveCalls,    \* per item: calls of SaveMediaToFile on it
  mkdirCalls,   \* calls of createUserDirectory
  batch,        \* the frame of GetMediaFromUserlist / main
  unit          \* a library function called on its own: call and result

vars == <<variant, numWorkers, PageSize, server, dir, pc, page, nextCursor,
          attempt, list, requests, faults, lastGet, delays, filtered, stripCalls, idx, sem, wg,
          bar, worker, errLogged, ret, saveCalls, mkdirCalls, batch, unit>>

config == <<variant, numWorkers, PageSize, server>>
outer == <<batch, unit>>
fetchVars ==
  <<page, nextCursor, attempt, list, requests, faults, lastGet, delays>>
poolVars == <<idx, sem, wg, bar, worker, errLogged>>

Variants == {"offset", "cursor"}
Items == 1..MaxItems

\* The catalogs the server may hold: the first k entries of one of these
\* repeating patterns (distinct entries; an entry the server lists twice;
\* a video first).
ServerPatterns ==
  { <<MediaA, MediaB, MediaC>>, <<MediaA, MediaA, MediaB>>, <<MediaC, MediaA>> }
Catalog(pat, k) == [i \in 1..k |-> pat[((i - 1) % Len(pat)) + 1]]
ServerChoices == {Catalog(pat, k) : pat \in ServerPatterns, k \in 0..MaxItems}

NoWorker == [st |-> "idle", res |-> "none"]

\* SaveAllMedia called for one username, outside GetMediaFromUserlist
NoBatch ==
  [pc |-> "single", n |-> 0, k |-> 0, pictures |-> FALSE, info |-> << >>,
   ret |-> "none", entry |-> "none"]

\* no library function is called on its own
NoUnit == [op |-> "none", arg |-> << >>, res |-> << >>]

\* the first iteration of the fetch loop: "page := 0" / "page := 1"
FirstPage(v) == IF v = "cursor" THEN 1 ELSE 0

\* The state when SaveAllMedia is entered, but for the inputs.
InitRun ==
  /\ dir \in DirChoices
  /\ pc = "fetch"
  /\ page = FirstPage(variant)
  /\ nextCursor = 0
  /\ attempt = 0
  /\ list = << >>
  /\ requests = 0
  /\ faults = 0
  /\ lastGet = "none"
  /\ delays = 0
  /\ filtered = << >>
  /\ stripCalls = 0
  /\ idx = 1
  /\ sem = 0
  /\ wg = 0
  /\ bar = 0
  /\ worker = [i \in Items |-> NoWorker]
  /\ errLogged = 0
  /\ ret = "none"
  /\ saveCalls = [i \in Items |-> 0]
  /\ mkdirCalls = 0

\* Runs of every -w value, on the largest page size.
Init ==
  /\ variant \in Variants
  /\ numWorkers \in 0..MaxWorkers
  /\ PageSize = MaxPageSize
  /\ server \in ServerChoices
  /\ InitRun
  /\ batch = NoBatch
  /\ unit = NoUnit

\* Runs of every page size, with one worker and an empty directory.
InitPaging ==
  /\ variant \in Variants
  /\ numWorkers = 1
  /\ PageSize \in 1..MaxPageSize
  /\ server \in ServerChoices
  /\ InitRun
  /\ batch = NoBatch
  /\ unit = NoUnit
  /\ dir = {}

(* ------------------------------ fetch ---------------------------------- *)
\* what the server answers to a page request that succeeds: the items from
\* offset `from` on, at most `size` of them
ServerPage(from, size) ==
  SubSeq(server, from + 1, Min(from + size, Len(server)))

\* the next_cursor of that answer: empty (0) when nothing is left
ServerNextCursor(from, size) ==
  IF from + size < Len(server) THEN from + size ELSE 0

\* the outcomes of one client.Get of a page:
\*   "ok"          status 200 and the page;
\*   "neterr"      a transport error;
\*   "status_json" a non-200 status whose body is a JSON object without media;
\*   "status_html" a non-200 status whose body is not JSON;
\*   "ok_missing"  status 200 and the page, the first entry of which lacks
\*                 the payload key its type names (an answer to the cursor
\*                 generation, whose entries are wrapped).
GetOutcomes == {"ok", "neterr", "status_json", "status_html", "ok_missing"}

\* the entries of a page as the server sends them to the cursor generation:
\* a type tag and the payload under the key of that name
RawPage(got, o) ==
  [i \in 1..Len(got) |->
     [type  |-> "image",
      keys  |-> IF o = "ok_missing" /\ i = 1 THEN {"type"} ELSE {"type", "image"},
      media |-> got[i]]]

\* MediaWrapper.UnmarshalJSON
UnmarshalJSON(raw) ==
  LET Type == IF "type" \in raw.keys THEN raw.type ELSE ""
  IN  [err |-> Type \notin raw.keys, media |-> raw.media]

\* json.Decode of the page into imageList: the error of an entry is the
\* error of the page
DecodePage(rawPage) ==
  IF \E i \in 1..Len(rawPage) : UnmarshalJSON(rawPage[i]).err
  THEN [err |-> TRUE, media |-> << >>]
  ELSE [err |-> FALSE,
        media |-> [i \in 1..Len(rawPage) |-> UnmarshalJSON(rawPage[i]).media]]

\* (the test written with <=)
LastPageOffsetOrFull(got, size) == got <= size

\* fetchMedia: "len(mediaResp.Media) < PageSize" ends the paging
LastPageOffset(got, size) == got < size

\* (the paging ends with the first page)
LastPageCursorAtOnce(next) == TRUE

\* fetchImageList: 'nextCursor == ""' ends the paging
LastPageCursor(next) == next = 0

\* (a delay after every failed attempt, the last one too)
SleepAfterAlways(i) == TRUE

\* "if i < retryCount-1 { time.Sleep(retryDelay) }" after failed attempt i
SleepAfter(i) == i < retryCount - 1

\* one iteration of fetchMedia's retry loop, and what follows it when the
\* loop ends: the error check, the decode, the append and the page test
FetchMediaStep(o) ==
  /\ variant = "offset"
  /\ delays' = IF o = "ok" THEN 0
               ELSE IF SleepAfter(attempt) THEN delays + 1 ELSE delays
  /\ requests' = requests + 1
  /\ faults' = IF o = "ok" THEN faults ELSE faults + 1
  /\ nextCursor' = nextCursor
  /\ IF o = "ok"
     THEN LET got == ServerPage(page * PageSize, PageSize)
          IN  /\ list' = list \o got
              /\ attempt' = 0
              /\ IF LastPageOffset(Len(got), PageSize)
                 THEN pc' = "fetched" /\ page' = page
                 ELSE pc' = pc /\ page' = page + 1
     ELSE IF attempt < retryCount - 1
     THEN /\ attempt' = attempt + 1
          /\ UNCHANGED <<list, pc, page>>
     ELSE \* the loop ends with the last attempt's err and resp
          /\ UNCHANGED <<attempt, page>>
          /\ IF o = "status_json"
             THEN \* err == nil: the body decodes to no media, a short page
                  pc' = "fetched" /\ list' = list
             ELSE \* "return nil, fmt.Errorf(...)"
                  pc' = "fetchfailed" /\ list' = << >>

\* one iteration of fetchImageList's loop
FetchImageListStep(o) ==
  /\ variant = "cursor"
  /\ delays' = delays
  /\ requests' = requests + 1
  /\ faults' = IF o = "ok" THEN faults ELSE faults + 1
  /\ attempt' = attempt
  /\ IF o \in {"ok", "ok_missing"}
     THEN LET curPage == DecodePage(RawPage(ServerPage(nextCursor, PageSize), o))
              next    == ServerNextCursor(nextCursor, PageSize)
          IN  IF curPage.err
              THEN \* "return nil, fmt.Errorf(...)"
                   /\ pc' = "fetchfailed"
                   /\ list' = << >>
                   /\ UNCHANGED <<nextCursor, page>>
              ELSE /\ list' = list \o curPage.media
                   /\ nextCursor' = next
                   /\ IF LastPageCursor(next)
                      THEN pc' = "fetched" /\ page' = page
                      ELSE pc' = pc /\ page' = page + 1
     ELSE IF o = "status_json"
     THEN \* no status check: the body decodes to no media and no cursor
          /\ nextCursor' = 0
          /\ pc' = "fetched"
          /\ UNCHANGED <<list, page>>
     ELSE \* "return nil, fmt.Errorf(...)"
          /\ pc' = "fetchfailed"
          /\ list' = << >>
          /\ UNCHANGED <<nextCursor, page>>

\* one iteration of the loop of the first generation's fetchImageList
FetchImageListFirstStep(o) ==
  /\ variant = "first"
  /\ delays' = delays
  /\ requests' = requests + 1
  /\ faults' = IF o = "ok" THEN faults ELSE faults + 1
  /\ UNCHANGED <<attempt, nextCursor>>
  /\ IF o \in {"ok", "status_json"}
     THEN \* no status check: a JSON body without media is an empty page
          LET got == IF o = "ok" THEN ServerPage(page * PageSize, PageSize)
                     ELSE << >>
          IN  /\ list' = list \o got
              /\ IF LastPageOffset(Len(got), PageSize)
                 THEN pc' = "fetched" /\ page' = page
                 ELSE pc' = pc /\ page' = page + 1
     ELSE \* "return imageList{}, err"
          /\ pc' = "fetchfailed"
          /\ list' = << >>
          /\ page' = page

\* a page request of the fetch SaveAllMedia called
FetchPage ==
  /\ pc = "fetch"
  /\ \E o \in GetOutcomes :
       /\ o # "ok" => faults < MaxFaults
       /\ o = "ok_missing" => variant = "cursor"
       /\ lastGet' = o
       /\ \/ FetchMediaStep(o)
          \/ FetchImageListStep(o)
          \/ FetchImageListFirstStep(o)
  /\ UNCHANGED <<outer, config, saveCalls, mkdirCalls, dir, filtered, stripCalls, poolVars, ret>>

\* (the error of the fetch is ignored)
AfterFetchIgnoringError(p) == "mkdir"

\* "if err != nil { return err }" after the fetch: where SaveAllMedia goes on
AfterFetch(p) == IF p = "fetched" THEN "mkdir" ELSE "returned"

\* the fetch has returned to SaveAllMedia, its frame is gone:
\* "mediaList, err := scraper.fetchMedia(); if err != nil { return err }"
FetchReturned ==
  /\ pc \in {"fetched", "fetchfailed"}
  /\ pc' = AfterFetch(pc)
  /\ ret' = IF AfterFetch(pc) = "returned" THEN "err" ELSE ret
  /\ page' = 0 /\ nextCursor' = 0 /\ attempt' = 0 /\ requests' = 0 /\ faults' = 0
  /\ lastGet' = "none"
  /\ delays' = 0
  /\ UNCHANGED <<outer, config, saveCalls, mkdirCalls, dir, list, filtered, stripCalls, poolVars>>

(* ------------------------- directory, filter --------------------------- *)
\* createUserDirectory: os.MkdirAll succeeds or fails
CreateUserDirectory ==
  /\ pc = "mkdir"
  /\ mkdirCalls' = mkdirCalls + 1
  /\ \E ok \in BOOLEAN :
       IF ok THEN pc' = "strip" /\ ret' = ret
       ELSE pc' = "returned" /\ ret' = "err"
  /\ UNCHANGED <<outer, config, saveCalls, dir, fetchVars, filtered, stripCalls,
                 poolVars>>

\* the first step of the pool loop's body
LoopFirst(v) == IF v = "offset" THEN "add" ELSE "send"

\* (the directory is filtered again once the loop has spawned its goroutines)
LoopAtRefilter(v, i, n) ==
  IF i <= n THEN LoopFirst(v) ELSE IF n > 0 THEN "strip" ELSE "wait"

\* the loop "for _, media := range mediaList" at item i of n: its body's
\* first step, or wg.Wait() after the last item
LoopAt(v, i, n) == IF i <= n THEN LoopFirst(v) ELSE "wait"

StripExisting ==
  /\ pc = "strip"
  /\ stripCalls' = stripCalls + 1
  /\ LET r == stripExistingMedia(variant, list, dir)
     IN  IF r.kind = "ok"
         THEN /\ filtered' = r.list
              /\ pc' = LoopAt(variant, 1, Len(r.list))
              /\ ret' = ret
         ELSE /\ filtered' = << >>
              /\ pc' = IF r.kind = "panic" THEN "crashed" ELSE "returned"
              /\ ret' = IF r.kind = "panic" THEN ret ELSE "err"
  /\ UNCHANGED <<outer, config, saveCalls, mkdirCalls, dir, fetchVars, poolVars>>

(* ------------------------------- pool ---------------------------------- *)
\* (a channel whose buffer takes one value too many)
SemCanSendOffByOne(n, capacity) == n <= capacity

\* a send on the buffered channel sem proceeds
SemCanSend(n, capacity) == n < capacity

\* what follows "sem <- 1" in the loop body
AfterSend(v) == IF v = "offset" THEN "go" ELSE "add"

\* what follows "wg.Add(1)" in the loop body
AfterAdd(v) == IF v = "offset" THEN "send" ELSE "go"

\* sem <- 1
LoopSend ==
  /\ pc = "send"
  /\ SemCanSend(sem, numWorkers)
  /\ sem' = sem + 1
  /\ pc' = AfterSend(variant)
  /\ UNCHANGED <<outer, config, saveCalls, mkdirCalls, dir, fetchVars, filtered, stripCalls, idx, wg, bar,
                 worker, errLogged, ret>>

\* wg.Add(1)
LoopAdd ==
  /\ pc = "add"
  /\ wg' = wg + 1
  /\ pc' = AfterAdd(variant)
  /\ UNCHANGED <<outer, config, saveCalls, mkdirCalls, dir, fetchVars, filtered, stripCalls, idx, sem, bar,
                 worker, errLogged, ret>>

\* go func(media Media) {...}(media), and the loop's next iteration
LoopGo ==
  /\ pc = "go"
  /\ worker' = [worker EXCEPT ![idx].st = "spawned"]
  /\ idx' = idx + 1
  /\ pc' = LoopAt(variant, idx + 1, Len(filtered))
  /\ UNCHANGED <<outer, config, saveCalls, mkdirCalls, dir, fetchVars, filtered, stripCalls, sem, wg, bar,
                 errLogged, ret>>

\* (no wait at all)
WaitCanReturnAtOnce(n) == n >= 0

\* wg.Wait() returns
WaitCanReturn(n) == n = 0

\* wg.Wait(); return nil
WaitReturn ==
  /\ pc = "wait"
  /\ WaitCanReturn(wg)
  /\ pc' = "returned"
  /\ ret' = "nil"
  /\ UNCHANGED <<outer, config, saveCalls, mkdirCalls, dir, fetchVars, filtered, stripCalls, poolVars>>

\* the outcomes of the transport during one save
SaveOutcomes == {"ok", "neterr", "status", "copyerr"}

\* (log.Fatal in place of log.Print: the process exits)
OnSaveErrorFatal(p) == "crashed"

\* "if err != nil { log.Print(err) }": where the goroutine running
\* SaveAllMedia is after a save failed
OnSaveError(p) == p

\* (the failure is not logged)
LogSaveErrorSilent(n) == n

\* the log after a failed save
LogSaveError(n) == n + 1

\* (the deferred function does not receive from sem)
SemAfterReceiveKept(n) == n

\* "<-sem"
SemAfterReceive(n) == n - 1

\* (a failed save is tried again)
AfterSaveWithRetry(err) == IF err THEN "spawned" ELSE "saved"

\* the goroutine's position once SaveMediaToFile has returned: the error is
\* logged and the function ends, the deferred function is what is left
AfterSave(err) == "saved"

\* the goroutine of item i calls SaveMediaToFile
SaveStart(i) ==
  /\ worker[i].st = "spawned"
  /\ worker' = [worker EXCEPT ![i].st = "saving"]
  /\ saveCalls' = [saveCalls EXCEPT ![i] = @ + 1]
  /\ UNCHANGED <<outer, config, mkdirCalls, dir, pc, fetchVars, filtered, stripCalls, idx, sem,
                 wg, bar, errLogged, ret>>

\* SaveMediaToFile of item i returns; an error is logged
SaveReturn(i) ==
  /\ worker[i].st = "saving"
  /\ \E o \in SaveOutcomes :
       LET r == SaveMediaToFile(variant, filtered[i], dir, o)
       IN  /\ dir' = r.dir
           /\ worker' = [worker EXCEPT ![i] =
                           [st |-> AfterSave(r.err),
                            res |-> IF r.err THEN "err" ELSE "ok"]]
           /\ errLogged' = IF r.err THEN LogSaveError(errLogged) ELSE errLogged
           /\ pc' = IF r.err THEN OnSaveError(pc) ELSE pc
  /\ UNCHANGED <<outer, config, saveCalls, mkdirCalls, fetchVars, filtered, stripCalls, idx, sem, wg, bar,
                 ret>>

\* the deferred function of item i's goroutine: <-sem
Release(i) ==
  /\ worker[i].st = "saved"
  /\ sem > 0
  /\ sem' = SemAfterReceive(sem)
  /\ worker' = [worker EXCEPT ![i].st = "released"]
  /\ UNCHANGED <<outer, config, saveCalls, mkdirCalls, dir, pc, fetchVars, filtered, stripCalls, idx, wg,
                 bar, errLogged, ret>>

\* the deferred function: wg.Done()
WgDone(i) ==
  /\ worker[i].st = "released"
  /\ wg' = wg - 1
  /\ worker' = [worker EXCEPT ![i].st = "counted"]
  /\ UNCHANGED <<outer, config, saveCalls, mkdirCalls, dir, pc, fetchVars, filtered, stripCalls, idx, sem,
                 bar, errLogged, ret>>

\* the deferred function: bar.Add(1)
BarAdd(i) ==
  /\ worker[i].st = "counted"
  /\ bar' = bar + 1
  /\ worker' = [worker EXCEPT ![i].st = "finished"]
  /\ UNCHANGED <<outer, config, saveCalls, mkdirCalls, dir, pc, fetchVars, filtered, stripCalls, idx, sem,
                 wg, errLogged, ret>>

Next ==
  \/ FetchPage
  \/ FetchReturned
  \/ CreateUserDirectory
  \/ StripExisting
  \/ LoopSend
  \/ LoopAdd
  \/ LoopGo
  \/ WaitReturn
  \/ \E i \in Items : SaveStart(i)
  \/ \E i \in Items : SaveReturn(i)
  \/ \E i \in Items : Release(i)
  \/ \E i \in Items : WgDone(i)
  \/ \E i \in Items : BarAdd(i)

Spec == Init /\ [][Next]_vars

\* the goroutine that runs SaveAllMedia
Main ==
  \/ FetchPage
  \/ FetchReturned
  \/ CreateUserDirectory
  \/ StripExisting
  \/ LoopSend
  \/ LoopAdd
  \/ LoopGo
  \/ WaitReturn

\* the goroutine of item i
Goroutine(i) ==
  \/ SaveStart(i)
  \/ SaveReturn(i)
  \/ Release(i)
  \/ WgDone(i)
  \/ BarAdd(i)

\* The Go scheduler runs every runnable goroutine, and every save returns.
Fairness == WF_vars(Main) /\ \A i \in Items : WF_vars(Goroutine(i))

\* Runs of every -w value on catalogs of distinct entries, the directory
\* empty.
InitFair ==
  /\ variant \in Variants
  /\ numWorkers \in 0..MaxWorkers
  /\ PageSize = MaxPageSize
  /\ server \in {Catalog(<<MediaA, MediaB, MediaC>>, k) : k \in 0..MaxItems}
  /\ InitRun
  /\ batch = NoBatch
  /\ unit = NoUnit
  /\ dir = {}

FairSpec == InitFair /\ [][Next]_vars /\ Fairness

\* the same program on the paging inputs
SpecPaging == InitPaging /\ [][Next]_vars

(* ------------------------------ batch ---------------------------------- *)
\* what the sites endpoint answers to GetUserInfo:
\*   "neterr"   client.Get returns an error;
\*   "notfound" status 404;
\*   "status"   another status that is not 200;
\*   "badjson"  status 200, the body does not decode;
\*   "nosites"  status 200, the body lists no site;
\*   "site"     status 200, the body lists a site.
SiteOutcomes == {"neterr", "notfound", "status", "badjson", "nosites", "site"}

\* GetUserInfo of the first generation: its one result is an error
GetUserInfoFirst(o) == [found |-> o = "site", err |-> o # "site"]

\* GetUserInfo of the offset generation: (bool, error)
GetUserInfoOffset(o) ==
  [found |-> o = "site", err |-> o \in {"neterr", "status", "badjson"}]

\* GetUserInfo of the cursor generation: its one result is an error
GetUserInfoCursor(o) == [found |-> o = "site", err |-> o # "site"]

\* GetUserInfo: whether the identity is resolved, whether an error is returned
GetUserInfo(v, o) ==
  IF v = "offset" THEN GetUserInfoOffset(o)
  ELSE IF v = "cursor" THEN GetUserInfoCursor(o)
  ELSE GetUserInfoFirst(o)

\* the name of every user of the list (each has a directory of its own)
UserName == <<"u">>

\* the catalogs the server may hold for a user of the list
BatchServers == {Catalog(<<MediaA, MediaB, MediaC>>, k) : k \in 0..MaxBatchItems}

\* a new Scraper, not yet in SaveAllMedia (p = "none") or entering it
ResetRun(p) ==
  /\ pc' = p
  /\ page' = FirstPage(variant)
  /\ nextCursor' = 0
  /\ attempt' = 0
  /\ list' = << >>
  /\ requests' = 0
  /\ faults' = 0
  /\ lastGet' = "none"
  /\ delays' = 0
  /\ filtered' = << >>
  /\ stripCalls' = 0
  /\ idx' = 1
  /\ sem' = 0
  /\ wg' = 0
  /\ bar' = 0
  /\ worker' = [i \in Items |-> NoWorker]
  /\ errLogged' = 0
  /\ ret' = "none"
  /\ saveCalls' = [i \in Items |-> 0]
  /\ mkdirCalls' = 0

\* no Scraper is in SaveAllMedia
NoRun ==
  /\ server = << >>
  /\ dir = {}
  /\ pc = "none"
  /\ page = FirstPage(variant)
  /\ nextCursor = 0
  /\ attempt = 0
  /\ list = << >>
  /\ requests = 0
  /\ faults = 0
  /\ lastGet = "none"
  /\ delays = 0
  /\ filtered = << >>
  /\ stripCalls = 0
  /\ idx = 1
  /\ sem = 0
  /\ wg = 0
  /\ bar = 0
  /\ worker = [i \in Items |-> NoWorker]
  /\ errLogged = 0
  /\ ret = "none"
  /\ saveCalls = [i \in Items |-> 0]
  /\ mkdirCalls = 0

\* the entry paths of main: the user name on the command line, or the list
\* of names of the "-l" flag
EntryPaths == {"single", "list"}

\* main has parsed its flags: the user name of the command line is next
\* (the repository has a main for the first and for the cursor generation),
\* or GetMediaFromUserlist is entered with a list of 1..MaxUsers names; the
\* first generation has no profile-picture flag.
InitBatch ==
  /\ variant \in Generations
  /\ numWorkers = 1
  /\ PageSize = MaxPageSize
  /\ NoRun
  /\ \E n \in 1..MaxUsers, p \in BOOLEAN, entry \in EntryPaths :
       /\ variant = "first" => ~p
       /\ entry = "single" => (n = 1 /\ variant # "offset")
       /\ batch = [pc |-> IF entry = "single" THEN "main" ELSE "scan",
                   n |-> n, k |-> 0, pictures |-> p,
                   info |-> << >>, ret |-> "none", entry |-> entry]
  /\ unit = NoUnit

\* what main does with the user name of the command line before
\* SaveAllMedia: the first generation's main calls nothing, the cursor
\* generation's calls GetUserInfo and ends the process on its error
MainUserInfo(v, o) ==
  IF v = "first" THEN [called |-> FALSE, found |-> FALSE, err |-> FALSE]
  ELSE [called |-> TRUE, found |-> GetUserInfo(v, o).found,
        err |-> GetUserInfo(v, o).err]

\* main on the user name of the command line: NewScraper, GetUserInfo where
\* main calls it, then SaveAllMedia is entered (or SaveProfilePicture is
\* next); resp "none" records that GetUserInfo was not called
MainSingle ==
  /\ batch.pc = "main"
  /\ \E o \in SiteOutcomes :
       LET r    == MainUserInfo(variant, o)
           next == IF r.err THEN "abort"
                   ELSE IF batch.pictures THEN "picture" ELSE "run"
           rec  == [resp |-> IF r.called THEN o ELSE "none",
                    found |-> r.found, err |-> r.err, run |-> "none"]
       IN  /\ batch' = [batch EXCEPT
                          !.k = 1,
                          !.info = Append(@, rec),
                          !.pc = IF next = "abort" THEN "done" ELSE next,
                          !.ret = IF next = "abort" THEN "err" ELSE @]
           /\ IF next = "run"
              THEN /\ ResetRun("fetch")
                   /\ server' \in BatchServers
                   /\ dir' = {}
              ELSE /\ ResetRun("none")
                   /\ server' = << >>
                   /\ dir' = dir
  /\ UNCHANGED <<unit, variant, numWorkers, PageSize>>

\* where the caller of SaveAllMedia or SaveProfilePicture goes on: the loop
\* of GetMediaFromUserlist scans the next name, main is over
AfterRun(entry) == IF entry = "single" THEN "done" ELSE "scan"

\* what main returns with after the call: log.Fatal on its error
MainResult(entry, old, r) ==
  IF entry = "single" THEN (IF r = "err" THEN "err" ELSE "nil") ELSE old

\* "for scanner.Scan()": the next name of the list, or "return nil" after
\* the last one
Scan ==
  /\ batch.pc = "scan"
  /\ IF batch.k < batch.n
     THEN batch' = [batch EXCEPT !.pc = "info", !.k = @ + 1]
     ELSE batch' = [batch EXCEPT !.pc = "done", !.ret = "nil"]
  /\ UNCHANGED <<unit, config, dir, pc, fetchVars, filtered, stripCalls,
                 poolVars, ret, saveCalls, mkdirCalls>>

\* what the loop body does with GetUserInfo's result: the first generation
\* returns the error, the later ones go on with the next name
AfterUserInfo(v, r, pictures) ==
  IF r.err THEN (IF v = "first" THEN "abort" ELSE "scan")
  ELSE IF ~r.found THEN "scan"
  ELSE IF pictures THEN "picture" ELSE "run"

\* NewScraper, GetUserInfo and the tests of its result; for a resolved user
\* SaveAllMedia is entered (or SaveProfilePicture is next)
UserInfo ==
  /\ batch.pc = "info"
  /\ \E o \in SiteOutcomes :
       LET r    == GetUserInfo(variant, o)
           next == AfterUserInfo(variant, r, batch.pictures)
           rec  == [resp |-> o, found |-> r.found, err |-> r.err, run |-> "none"]
       IN  /\ batch' = [batch EXCEPT
                          !.info = Append(@, rec),
                          !.pc = IF next = "abort" THEN "done" ELSE next,
                          !.ret = IF next = "abort" THEN "err" ELSE @]
           /\ IF next = "run"
              THEN /\ ResetRun("fetch")
                   /\ server' \in BatchServers
                   /\ dir' = {}
              ELSE /\ ResetRun("none")
                   /\ server' = << >>
                   /\ dir' = IF next = "picture" THEN {} ELSE dir
  /\ UNCHANGED <<unit, variant, numWorkers, PageSize>>

\* the outcomes of SaveProfilePicture: a directory that cannot be made, a
\* profile image URL that does not parse, or the download's outcome
PictureOutcomes == {"mkdirfail", "parsefail"} \cup SaveOutcomes

\* SaveProfilePicture: the directories, then the download to
\* profile/<username>.jpg
SaveProfilePicture(d, o) ==
  IF o \in {"mkdirfail", "parsefail"} THEN [err |-> TRUE, dir |-> d]
  ELSE IF o \in {"neterr", "status"}
  THEN [err |-> TRUE, dir |-> d \cup {SubDir(ProfileName)}]
  ELSE [err |-> o = "copyerr",
        dir |-> d \cup {SubDir(ProfileName), ProfileFile(UserName \o DotJpg)}]

\* the loop body's call of SaveProfilePicture; an error is logged
ProfilePicture ==
  /\ batch.pc = "picture"
  /\ \E o \in PictureOutcomes :
       LET r == SaveProfilePicture(dir, o)
       IN  /\ dir' = r.dir
           /\ batch' = [batch EXCEPT
                          !.pc = AfterRun(batch.entry),
                          !.ret = MainResult(batch.entry, @,
                                             IF r.err THEN "err" ELSE "nil"),
                          !.info[batch.k].run = IF r.err THEN "err" ELSE "nil"]
  /\ UNCHANGED <<unit, config, pc, fetchVars, filtered, stripCalls, poolVars,
                 ret, saveCalls, mkdirCalls>>

\* SaveAllMedia has returned to the loop body; an error is logged (ignored
\* in the first generation) and the Scraper is dropped
SaveAllMediaReturned ==
  /\ batch.pc = "run"
  /\ pc = "returned"
  /\ batch' = [batch EXCEPT !.pc = AfterRun(batch.entry),
                            !.ret = MainResult(batch.entry, @, ret),
                            !.info[batch.k].run = ret]
  /\ ResetRun("none")
  /\ UNCHANGED <<unit, config, dir>>

NextBatch ==
  \/ MainSingle
  \/ Scan
  \/ UserInfo
  \/ ProfilePicture
  \/ SaveAllMediaReturned
  \/ Next

\* GetMediaFromUserlist over a list of names
SpecBatch == InitBatch /\ [][NextBatch]_vars

(* --------------------------- library calls ----------------------------- *)
\* the "Accept-Encoding" header HttpClient.Get sets: "gzip, deflate, br"
AcceptEncoding == {"gzip", "deflate", "br"}

\* the bodies a server may send
Payloads == {<< >>, <<"x">>, <<"x", "y">>}

\* a body as the server sends it under a content-encoding: the encoded form
\* is told apart from the body by the mark of its encoding
Encode(enc, body) == IF enc = "identity" THEN body ELSE <<enc>> \o body

\* gzip.NewReader and the reads from it
GzipReader(data) ==
  IF Len(data) > 0 /\ data[1] = "gzip"
  THEN [err |-> FALSE, body |-> Tail(data)]
  ELSE [err |-> TRUE, body |-> << >>]

\* HttpClient.Get once client.Do has returned a response: the body the
\* caller reads
Get(resp) ==
  IF resp.encoding = "gzip" THEN GzipReader(resp.body)
  ELSE [err |-> FALSE, body |-> resp.body]

\* Get on the response to a request whose body the server encoded
CallGet ==
  /\ \E enc \in AcceptEncoding \cup {"identity"}, b \in Payloads :
       unit' = [op  |-> "Get",
                arg |-> [encoding |-> enc, payload |-> b],
                res |-> Get([encoding |-> enc, body |-> Encode(enc, b)])]
  /\ UNCHANGED <<batch, config, dir, pc, fetchVars, filtered, stripCalls,
                 poolVars, ret, saveCalls, mkdirCalls>>

\* the names DownloadFile is asked to write
DownloadNames == {<<"a">> \o DotJpg, <<"b">>, <<"c">>}

\* DownloadFile of either httpclient into a directory
CallDownloadFile ==
  /\ \E h \in HttpClients, d \in DirChoices, n \in DownloadNames,
        o \in SaveOutcomes :
       unit' = [op  |-> "DownloadFile",
                arg |-> [client |-> h, dir |-> d, name |-> n, outcome |-> o],
                res |-> DownloadFileOf(h, d, n, o)]
  /\ UNCHANGED <<batch, config, dir, pc, fetchVars, filtered, stripCalls,
                 poolVars, ret, saveCalls, mkdirCalls>>

\* the URL and the file name SaveMediaToFile derives for an entry
CallSaveMediaToFile ==
  /\ \E v \in Generations, m \in MediaUniverse :
       unit' = [op  |-> "SaveMediaToFile",
                arg |-> [variant |-> v, media |-> m],
                res |-> [url |-> TransportUrl(v, m), file |-> SaveFilename(v, m)]]
  /\ UNCHANGED <<batch, config, dir, pc, fetchVars, filtered, stripCalls,
                 poolVars, ret, saveCalls, mkdirCalls>>

\* a Media no field of which the payload sets: json.Unmarshal leaves the
\* zero value
ZeroMedia ==
  [ID |-> << >>, Is_video |-> FALSE, Video_url |-> << >>,
   Responsive_url |-> << >>, Upload_date |-> [s |-> 0, ms |-> 0]]

\* the entries of a page of the cursor generation: an image; a video, whose
\* payload under "video" has none of the fields of Media; an entry with a
\* type tag the payload has no key for
RawEntries ==
  {[type |-> "image", keys |-> {"type", "image"}, media |-> MediaA],
   [type |-> "video", keys |-> {"type", "video"}, media |-> ZeroMedia],
   [type |-> "article", keys |-> {"type", "image"}, media |-> MediaA]}

\* the pages the decoder is given
RawPages ==
  {<<x>> : x \in RawEntries} \cup {<<x, y>> : x \in RawEntries, y \in RawEntries}

\* the decode of one page in fetchImageList
CallDecodePage ==
  /\ \E rawPage \in RawPages :
       unit' = [op |-> "DecodePage", arg |-> rawPage, res |-> DecodePage(rawPage)]
  /\ UNCHANGED <<batch, config, dir, pc, fetchVars, filtered, stripCalls,
                 poolVars, ret, saveCalls, mkdirCalls>>

\* the upload dates getMediaFilename is given: 1, 3, 4, 10, 12 and 13 digits
UploadDates ==
  {[s |-> 0, ms |-> 0], [s |-> 0, ms |-> 999], [s |-> 1, ms |-> 0],
   [s |-> 1700000, ms |-> 5], [s |-> 999999999, ms |-> 999],
   [s |-> 1700000000, ms |-> 123]}

\* getMediaFilename of the cursor generation on an image uploaded at `d`
CallGetMediaFilename ==
  /\ \E d \in UploadDates :
       unit' = [op  |-> "getMediaFilename",
                arg |-> [MediaA EXCEPT !.Upload_date = d],
                res |-> getMediaFilename([MediaA EXCEPT !.Upload_date = d])]
  /\ UNCHANGED <<batch, config, dir, pc, fetchVars, filtered, stripCalls,
                 poolVars, ret, saveCalls, mkdirCalls>>

InitUnits ==
  /\ variant = "offset"
  /\ numWorkers = 1
  /\ PageSize = MaxPageSize
  /\ NoRun
  /\ batch = NoBatch
  /\ unit = NoUnit

NextUnits ==
  \/ CallGet
  \/ CallDownloadFile
  \/ CallSaveMediaToFile
  \/ CallDecodePage
  \/ CallGetMediaFilename

\* the functions of httpclient and the pure functions of SaveMediaToFile,
\* each called on its own
SpecUnits == InitUnits /\ [][NextUnits]_vars

(* ============================ properties =============================== *)
\* the items whose SaveMediaToFile call has started and not returned
InFlight == {i \in Items : worker[i].st = "saving"}

\* the items whose SaveMediaToFile call has started
SaveStarted(i) == worker[i].st \notin {"idle", "spawned"}

\* the items whose SaveMediaToFile call has returned
SaveHasReturned(i) == worker[i].st \in {"saved", "released", "counted", "finished"}

Failed == {i \in Items : worker[i].res = "err"}
Succeeded == {i \in Items : worker[i].res = "ok"}

\* the goroutine running SaveAllMedia is in the pool stage
InPool == pc \in {"send", "add", "go", "wait"}

\* C1: with workerCount = W >= 1, in every reachable state the number of
\* SaveMediaToFile calls that have started and not yet returned is at most W.
C1_BoundedConcurrency ==
  numWorkers >= 1 => Cardinality(InFlight) <= numWorkers

\* C1 witness: W = 2 saves are in flight, and the third item waits for a slot.
C1_Witness ==
  /\ numWorkers = 2
  /\ Cardinality(InFlight) = 2
  /\ Len(filtered) = 3
  /\ worker[3].st = "idle"
  /\ sem = numWorkers

\* C2: in the state where SaveAllMedia has returned, every item of the
\* filtered list has a SaveMediaToFile call that has returned.
C2_DrainsBeforeReturn ==
  pc = "returned" => \A i \in 1..Len(filtered) : SaveHasReturned(i)

\* C2 witness: SaveAllMedia has returned from a batch of three items on one
\* worker.
C2_Witness ==
  /\ pc = "returned"
  /\ ret = "nil"
  /\ numWorkers = 1
  /\ Len(filtered) = 3
  /\ \A i \in 1..3 : SaveHasReturned(i)

\* C3: for workerCount >= 1 and a finite filtered list, SaveAllMedia
\* eventually returns under fair scheduling, whatever saves fail.
C3_EventuallyReturns ==
  (InPool /\ numWorkers >= 1) ~> (pc = "returned" /\ ret = "nil")

\* C3 witness: SaveAllMedia has returned although two of three saves failed.
C3_Witness ==
  /\ pc = "returned"
  /\ ret = "nil"
  /\ numWorkers >= 1
  /\ Len(filtered) = 3
  /\ Cardinality(Failed) = 2

\* C4: a save that fails changes nothing of its siblings or of the loop
\* (no goroutine is cancelled or skipped, SaveAllMedia does not return in
\* that step), and when SaveAllMedia has returned after a failure every
\* other item's save has run to completion and the result is not an error.
C4_StepIsolated ==
  \A i \in Items :
    (worker[i].st = "saving" /\ worker'[i].res = "err") =>
      /\ \A j \in Items \ {i} : worker'[j] = worker[j]
      /\ UNCHANGED <<pc, idx, sem, wg, filtered, ret>>
C4_AtReturn ==
  (pc = "returned" /\ Failed # {}) =>
    /\ ret = "nil"
    /\ \A j \in 1..Len(filtered) : SaveHasReturned(j)
C4_FailureIsolation == []C4_AtReturn /\ [][C4_StepIsolated]_vars

\* C4 witness: the first item's save failed, the second item's save was
\* started afterwards (one worker) and succeeded, and SaveAllMedia returned.
C4_Witness ==
  /\ numWorkers = 1
  /\ Len(filtered) >= 2
  /\ worker[1].res = "err"
  /\ worker[2].res = "ok"
  /\ pc = "returned"

Ceil(a, b) == (a + b - 1) \div b

\* fetchMedia has ended its paging and no page request failed
FetchedClean == pc = "fetched" /\ variant = "offset" /\ faults = 0

\* C6 as stated: a server holding T items, pages of N: the fetch issues
\* exactly ceil(T/N) page requests and the catalog has length T.
C6_CeilRequests ==
  FetchedClean =>
    /\ requests = Ceil(Len(server), PageSize)
    /\ Len(list) = Len(server)

\* C6 amended: the fetch issues floor(T/N) + 1 page requests (one more than
\* ceil(T/N) when T is a multiple of N, T = 0 included: the paging ends at
\* the first page shorter than N) and the catalog is the server's, length T.
C6_FloorPlusOneRequests ==
  FetchedClean =>
    /\ requests = (Len(server) \div PageSize) + 1
    /\ list = server

\* C6 witness: T = 2 items in pages of N = 2 took two requests.
C6_Witness ==
  /\ FetchedClean
  /\ Len(server) = 2
  /\ PageSize = 2
  /\ requests = 2
  /\ Len(list) = 2

AnySaveStarted == \E i \in Items : SaveStarted(i)

\* C7: no save starts before the last page request and stripExistingMedia
\* have returned, and once a save has started there is no further page
\* request and no further filtering.
C7_StartedAfterFilter ==
  AnySaveStarted =>
    /\ stripCalls = 1
    /\ requests = 0
    /\ pc \notin {"fetch", "fetched", "fetchfailed", "mkdir", "strip"}
C7_NothingRefetched ==
  AnySaveStarted => UNCHANGED <<requests, stripCalls, list, filtered>>
C7_FetchFilterThenSave == []C7_StartedAfterFilter /\ [][C7_NothingRefetched]_vars

\* C7 witness: a save is in flight after a catalog of two pages was fetched
\* and one of its three items filtered out.
C7_Witness ==
  /\ InFlight # {}
  /\ Len(list) = 3
  /\ Len(filtered) = 2
  /\ stripCalls = 1

\* x is an extension as path.Ext returns one: a dot, then no dot or slash
PlainExtension(x) ==
  /\ Len(x) >= 1
  /\ x[1] = "."
  /\ \A k \in 2..Len(x) : x[k] \notin {".", "/"}

\* the entry name n, its extension stripped, is the identity id
Identifies(n, id) ==
  \/ n = id /\ \A k \in 1..Len(id) : id[k] # "."
  \/ /\ Len(n) > Len(id)
     /\ SubSeq(n, 1, Len(id)) = id
     /\ PlainExtension(SubSeq(n, Len(id) + 1, Len(n)))

\* the inventory holds the identity of `media`: a non-directory entry of
\* the directory or of its profile/ carries it
InInventory(media, d) == \E e \in d : ~e.isDir /\ Identifies(e.name, media.ID)

NotInInventory(media) == ~InInventory(media, dir)

\* C8: stripExistingMedia (inventory form) returns exactly the catalog
\* items whose identity is not in the inventory, in catalog order; names of
\* subdirectories do not count, and the directory is left as it was.
C8_StripStep ==
  (pc = "strip" /\ variant = "offset") =>
    /\ filtered' = SelectSeq(list, NotInInventory)
    /\ dir' = dir
    /\ pc' \in {"add", "wait"}
C8_StripReturnsNew == [][C8_StripStep]_vars

\* C8 witness: of the catalog a, b, c the filter kept a and b: c.jpg lies in
\* profile/, and the subdirectory named a did not count.
C8_Witness ==
  /\ variant = "offset"
  /\ list = <<MediaA, MediaB, MediaC>>
  /\ filtered = <<MediaA, MediaB>>
  /\ SubDir(<<"a">>) \in dir
  /\ ProfileFile(<<"c">> \o DotJpg) \in dir
  /\ stripCalls = 1

\* C9: after SaveMediaToFile of an item has returned success, a
\* stripExistingMedia over the catalog and the same directory does not
\* return that item.
C9_SavedIsFilteredOut ==
  \A i \in 1..Len(filtered) :
    worker[i].res = "ok" =>
      LET r == stripExistingMedia(variant, list, dir)
      IN  /\ r.kind = "ok"
          /\ \A k \in 1..Len(r.list) : r.list[k] # filtered[i]

\* C9 witness: the video c, whose URL has no extension, was saved as c.mp4.
C9_Witness ==
  /\ variant = "offset"
  /\ \E i \in 1..Len(filtered) : filtered[i] = MediaC /\ worker[i].res = "ok"
  /\ File(<<"c">> \o DotMp4) \in dir

\* the name the save of item i writes
TargetName(i) == SaveFilename(variant, filtered[i]).name

\* C10 as stated: no two saves of one run write to the same path: any two
\* distinct entries of the filtered list have distinct file names.
C10_DistinctPaths ==
  \A i, j \in 1..Len(filtered) :
    (i # j /\ SaveStarted(i) /\ SaveStarted(j)) => TargetName(i) # TargetName(j)

\* C11: in one SaveAllMedia run SaveMediaToFile is called at most once on
\* every entry of the filtered list, failed or not, on nothing else, and
\* exactly once on each of them when SaveAllMedia has returned.
C11_SavedExactlyOnce ==
  /\ \A i \in Items : saveCalls[i] <= 1
  /\ \A i \in Items : i > Len(filtered) => saveCalls[i] = 0
  /\ pc = "returned" => \A i \in 1..Len(filtered) : saveCalls[i] = 1

\* C11 witness: of the catalog a, b, c the entry a was filtered out; the save
\* of b failed and was not repeated, c was saved, and SaveAllMedia returned.
C11_Witness ==
  /\ variant = "offset"
  /\ list = <<MediaA, MediaB, MediaC>>
  /\ filtered = <<MediaB, MediaC>>
  /\ pc = "returned"
  /\ worker[1].res = "err"
  /\ worker[2].res = "ok"
  /\ saveCalls = [i \in Items |-> IF i <= 2 THEN 1 ELSE 0]

\* C12: GetUserInfo tells three outcomes apart: a response listing zero
\* sites is "not found" and not an error; a transport failure, a status that
\* is neither success nor not-found, or a body that does not decode is an
\* error; a response listing a site resolves the identity.
C12_ThreeOutcomes ==
  \A k \in 1..Len(batch.info) :
    LET r == batch.info[k]
    IN  /\ r.resp = "nosites" => ~r.err /\ ~r.found
        /\ r.resp \in {"neterr", "status", "badjson"} => r.err /\ ~r.found
        /\ r.resp = "site" => r.found /\ ~r.err

\* C13: GetMediaFromUserlist does not return before identity resolution was
\* attempted for every name of the list, whatever the earlier names' outcome.
C13_EveryNameProcessed ==
  batch.pc = "done" => Len(batch.info) = batch.n

\* C14: a page of the cursor generation with an entry whose type names an
\* absent payload key does not make the fetch return an error: the fetch
\* goes on or ends with success.
C14_BadEntryNotFatal ==
  (variant = "cursor" /\ lastGet = "ok_missing" /\ ServerPage(nextCursor, PageSize) # << >>)
     => pc \in {"fetch", "fetched"}

\* C15: when fetchMedia's retry loop ends without a successful attempt (the
\* latest of its retryCount attempts was a transport error or a non-200
\* status), the fetch returns an error and no items.
C15_ExhaustedRetriesFail ==
  (variant = "offset" /\ pc \in {"fetched", "fetchfailed"} /\ lastGet # "ok")
     => (pc = "fetchfailed" /\ list = << >>)

\* no save was started and no goroutine spawned
NoSaveStarted ==
  /\ \A i \in Items : saveCalls[i] = 0 /\ worker[i] = NoWorker
  /\ idx = 1 /\ sem = 0 /\ wg = 0

\* the fetch has returned an error, or SaveAllMedia has returned an error
\* without having reached createUserDirectory
FetchHasFailed ==
  \/ pc = "fetchfailed"
  \/ pc = "returned" /\ ret = "err" /\ mkdirCalls = 0

\* the step SaveAllMedia takes from a failed fetch: it returns the error
C16_FailedFetchStep ==
  pc = "fetchfailed" =>
    /\ pc' = "returned"
    /\ ret' = "err"
    /\ UNCHANGED <<dir, list, filtered, stripCalls, mkdirCalls, poolVars, saveCalls>>

\* C16: when the fetch fails on a page, SaveAllMedia returns the error and
\* does nothing else: the user directory is not created, stripExistingMedia
\* is not called, no save is started, and the items of the pages fetched
\* before are dropped.
C16_FetchErrorAborts ==
  /\ [](FetchHasFailed =>
          /\ list = << >> /\ filtered = << >>
          /\ mkdirCalls = 0 /\ stripCalls = 0
          /\ NoSaveStarted)
  /\ [][C16_FailedFetchStep]_vars

\* C16 witness: the cursor fetch of a catalog of three items got its first
\* page and failed on the second; the two items it had are dropped.
C16_Witness ==
  /\ variant = "cursor"
  /\ Len(server) = 3
  /\ pc = "fetchfailed"
  /\ requests = 2
  /\ faults = 1
  /\ list = << >>

\* C17: DownloadFile returns an error for a response whose status is not a
\* success status and then leaves the directory as it was; it returns
\* success only for a success response.
C17_BadStatusIsError ==
  unit.op = "DownloadFile" =>
    /\ unit.arg.outcome = "status" =>
         (unit.res.err /\ unit.res.dir = unit.arg.dir)
    /\ ~unit.res.err => unit.arg.outcome = "ok"

\* C18: for every content-encoding Get advertises, the body Get returns
\* reads as the decoded body.
C18_BodyDecoded ==
  (unit.op = "Get" /\ unit.arg.encoding \in AcceptEncoding) =>
    (~unit.res.err /\ unit.res.body = unit.arg.payload)

\* select of the statement: the video URL when the video flag is set, the
\* responsive URL otherwise
SelectUrl(media) == IF media.Is_video THEN media.Video_url ELSE media.Responsive_url

\* normalize of the statement: "https://" is prepended unless it is there
NormalizeUrl(u) == IF HasPrefix(u, Https) THEN u ELSE Https \o u

\* C19: the URL SaveMediaToFile hands to the transport is
\* normalize(select(item)) and starts with "https://".
C19_UrlIsNormalized ==
  unit.op = "SaveMediaToFile" =>
    /\ unit.res.url = NormalizeUrl(SelectUrl(unit.arg.media))
    /\ HasPrefix(unit.res.url, Https)

\* the extension of the statement: that of the URL's path when it has one,
\* else ".mp4" for a video and ".jpg" for anything else
ExpectedExt(media, url) ==
  IF PathExt(UrlPath(url)) # << >> THEN PathExt(UrlPath(url))
  ELSE IF media.Is_video THEN DotMp4 ELSE DotJpg

\* C20: the file name of a save never lacks an extension: it ends with the
\* extension of the URL's path, or with ".mp4" / ".jpg" when the path has
\* none.
C20_NameHasExtension ==
  unit.op = "SaveMediaToFile" =>
    /\ unit.res.file.kind = "ok"
    /\ PathExt(unit.res.file.name) # << >>
    /\ PathExt(unit.res.file.name) = ExpectedExt(unit.arg.media, unit.res.url)

\* the saves that have returned
SavesReturned == {i \in Items : SaveHasReturned(i)}

\* C26: the progress count never exceeds the number of saves that have
\* returned, and it equals the number of submitted items in the state where
\* SaveAllMedia has returned.
C26_ProgressComplete ==
  /\ bar <= Cardinality(SavesReturned)
  /\ (pc = "returned" /\ ret = "nil") => bar = Len(filtered)

\* the name SaveMediaToFile writes for entry i of the filtered list
SaveNameOf(i) == SaveFilename(variant, filtered[i]).name

\* C27: an entry whose save returned an error (no other entry of the run
\* being written to the same name) is still returned by stripExistingMedia
\* over the same catalog and the directory as the run left it.
C27_FailedSaveIsRetried ==
  \A i \in 1..Len(filtered) :
    (/\ worker[i].res = "err"
     /\ \A j \in 1..Len(filtered) : j # i => SaveNameOf(j) # SaveNameOf(i))
      => LET r == stripExistingMedia(variant, list, dir)
         IN  r.kind = "ok" /\ \E k \in 1..Len(r.list) : r.list[k] = filtered[i]

\* C28: with numWorkers = 0 and a filtered list that is not empty,
\* SaveAllMedia stays at the admission of the first entry: no goroutine is
\* spawned, no save starts and it does not return; with an empty filtered
\* list it is at wg.Wait() with a zero counter, so that it returns, whatever
\* numWorkers is.
C28_ZeroWorkersBlock ==
  /\ (numWorkers = 0 /\ stripCalls = 1 /\ Len(filtered) >= 1) =>
       /\ pc \in {"add", "send"}
       /\ idx = 1
       /\ \A i \in Items : saveCalls[i] = 0 /\ worker[i] = NoWorker
  /\ (stripCalls = 1 /\ Len(filtered) = 0 /\ ret # "err") =>
       \/ pc = "wait" /\ WaitCanReturn(wg)
       \/ pc = "returned" /\ ret = "nil"

\* C28 witness: the offset generation with -w 0 and two new entries has
\* counted the first one in and waits to send on sem.
C28_Witness ==
  /\ numWorkers = 0
  /\ variant = "offset"
  /\ Len(filtered) = 2
  /\ pc = "send"
  /\ wg = 1
  /\ sem = 0

\* a page request of fetchMedia
C23_Request == variant = "offset" /\ pc = "fetch" /\ requests' = requests + 1

\* what a page request of fetchMedia is preceded and followed by
C23_RetryStep ==
  C23_Request =>
    /\ attempt < retryCount
    /\ delays = attempt
    /\ page' >= page
    /\ lastGet' = "ok" =>
         (pc' = "fetched" \/ (pc' = "fetch" /\ page' = page + 1 /\ attempt' = 0))
    /\ (lastGet' # "ok" /\ attempt < retryCount - 1) =>
         (pc' = "fetch" /\ page' = page /\ attempt' = attempt + 1
            /\ delays' = delays + 1)
    /\ (lastGet' # "ok" /\ attempt = retryCount - 1) =>
         (pc' # "fetch" /\ delays' = delays)

\* C23: fetchMedia requests a page at most retryCount times, stops at the
\* first attempt without transport error and with status 200, sleeps once
\* between two consecutive attempts and not after the last one, and never
\* requests again a page that succeeded.
C23_BoundedRetries == [][C23_RetryStep]_vars

\* C23 witness: the second page failed three times after two delays, and the
\* fetch has ended.
C23_Witness ==
  /\ variant = "offset"
  /\ pc = "fetchfailed"
  /\ page = 1
  /\ requests = 1 + retryCount
  /\ attempt = retryCount - 1
  /\ delays = retryCount - 1


\* C21: a catalog entry of an unsupported variant (type video, or a type tag
\* the decoder does not know) does not make the decode of its page fail, and
\* the item it is decoded into does not make the filter or a save crash: its
\* file name is derived without a failure.
C21_UnsupportedEntryTolerated ==
  unit.op = "DecodePage" =>
    /\ ~unit.res.err
    /\ \A i \in 1..Len(unit.res.media) :
         getMediaFilename(unit.res.media[i]).kind = "ok"

\* C24: for every upload date, getMediaFilename of the cursor generation
\* returns a name, and the stem of the name is the decimal form of
\* floor(Upload_date / 1000), the second SaveMediaToFile sets as the file's
\* modification time.
C24_StemIsUnixSeconds ==
  unit.op = "getMediaFilename" =>
    /\ unit.res.kind = "ok"
    /\ unit.res.name = Digits(UnixSeconds(unit.arg.Upload_date)) \o DotJpg


\* a page request of fetchImageList that is answered with status 200 and a
\* well-formed page, no earlier request of the fetch having failed
C22_Request ==
  /\ variant = "cursor"
  /\ pc = "fetch"
  /\ faults = 0
  /\ requests' = requests + 1
  /\ lastGet' = "ok"

\* the cursor the request carries, the page appended, and the end of the loop
C22_PageStep ==
  C22_Request =>
    /\ requests = 0 => nextCursor = 0
    /\ requests > 0 => (nextCursor # 0 /\ nextCursor = requests * PageSize)
    /\ list' = list \o ServerPage(nextCursor, PageSize)
    /\ nextCursor' = ServerNextCursor(nextCursor, PageSize)
    /\ pc' \in {"fetch", "fetched"}
    /\ pc' = "fetched" <=> ServerNextCursor(nextCursor, PageSize) = 0

\* the catalog while the paging goes on and when it has ended
C22_Catalog ==
  (variant = "cursor" /\ faults = 0) =>
    /\ pc = "fetch" => list = SubSeq(server, 1, requests * PageSize)
    /\ pc = "fetched" =>
         /\ list = server
         /\ nextCursor = 0
         /\ requests = IF Len(server) = 0 THEN 1 ELSE Ceil(Len(server), PageSize)

\* C22: in fetchImageList, the first request carries an empty cursor, each
\* later request carries the next_cursor of the response before it, the loop
\* ends at the first response whose next_cursor is empty and at no other
\* response, and the catalog returned is the concatenation of the pages in
\* request order (every request being answered with a well-formed page).
C22_CursorPaging == [][C22_PageStep]_vars /\ []C22_Catalog

\* C22 witness: three items in pages of one took three requests, the last
\* of which came back with an empty cursor.
C22_Witness ==
  /\ variant = "cursor"
  /\ pc = "fetched"
  /\ faults = 0
  /\ PageSize = 1
  /\ requests = 3
  /\ list = server
  /\ Len(server) = 3


\* C25: on both entry paths, a page request for a user is issued only after
\* GetUserInfo has resolved that user's identity in the same run.
C25_ResolvedBeforeRequest ==
  (batch.entry \in EntryPaths /\ requests > 0) =>
    /\ batch.k >= 1
    /\ batch.info[batch.k].resp = "site"
    /\ batch.info[batch.k].found

====
